---- MODULE Spec2Model ----
(***************************************************************************)
(* Raw-pointer (non-owning reference) save/load of cereal's common.hpp and *)
(* the load_and_construct container loader of container.hpp.               *)
(*                                                                         *)
(* The archive members the two files call (registerSharedPointer,          *)
(* getSharedPointer), the std::shared_ptr save/load that writes and reads  *)
(* the defining entries, load_and_construct and the container save are not *)
(* part of the two files; they are modelled from the specification.        *)
(***************************************************************************)
EXTENDS Integers, Sequences, FiniteSets, TLC

\* ------------------------------------------------------------------ bounds
NumOwners == 2
MaxStream == 3
MaxLen == 2

\* --------------------------------------------------------------- constants
\* A 32-bit field is held as its bit 31 and its low 31 bits.
Word(m, l) == [msb |-> m, low |-> l]
\* detail::msb_32bit, 0x80000000
msb_32bit == Word(TRUE, 0)
\* the largest value of the low 31 bits
MaxLow == 2147483647
\* the 32-bit field of a number below 2^31
ToWord(n) == Word(FALSE, n)

Owners == 1..NumOwners
\* the value an owner holds; owners 1 and 2 hold equal values, so that an
\* instance is told from an equal value
OwnerValue(o) == IF o <= 2 THEN 42 ELSE 7

\* a reference that is bound to nothing
Unbound == 0
\* a reference holding a stale address from before the load
Stale == 0 - 1
NoData == 0 - 1

\* values a tampered identity field may take
TamperFields ==
    {Word(m, l) : m \in BOOLEAN, l \in {0, 1, 2, NumOwners + 1}}
        \cup {Word(TRUE, MaxLow)}

Elems == {1, 2}

VARIABLES
    \* save session (output archive)
    registry,       \* owner address -> identity
    nextIdentity,   \* next identity to allocate
    stream,         \* the entries written, in order
    saveRes,        \* what the last save operation did
    saveFailed,     \* some save operation of the session has thrown
    ownedSaved,     \* owners saved through an owning reference so far
    \* load session (input archive)
    phase,          \* "save" or "load"
    input,          \* the entries the load session reads
    tampered,       \* input differs from the stream the save produced
    pos,            \* index of the next entry to read
    resolved,       \* identity -> reconstructed instance
    instances,      \* instances[i] is the value instance i holds
    bound,          \* bound[i] is the reference obtained from entry i
    loadRes,        \* what the last load operation did
    \* container adapter
    container,      \* the container that is saved
    snapshot,       \* [size, elems]: the length field and the encoded elements
    dest,           \* the destination container of a load
    cres            \* what the last container load did

ptrVars == <<registry, nextIdentity, stream, saveRes, saveFailed, ownedSaved,
             phase, input, tampered, pos, resolved, instances, bound, loadRes>>
conVars == <<container, snapshot, dest, cres>>
vars == <<ptrVars, conVars>>

\* ------------------------------------------------------------------ helpers
\* id & detail::msb_32bit, as a condition
HasMsb(id) == id.msb /\ msb_32bit.msb
\* id | detail::msb_32bit
SetMsb(id) == Word(id.msb \/ msb_32bit.msb, id.low)
\* id & ~detail::msb_32bit
StripMsb(id) == Word(id.msb /\ ~msb_32bit.msb, id.low)

EmptyMap == [x \in {} |-> 0]

BoundedSeqs(S, n) == UNION {[1..k -> S] : k \in 0..n}

\* ------------------------------------------------------- identity registry
\* mutant: a registry whose first identity is the sentinel 0
registerSharedPointer_FromZero(map, cur, addr) ==
    IF addr \in DOMAIN map
    THEN [map |-> map, cur |-> cur, id |-> map[addr]]
    ELSE [map |-> (addr :> ToWord(cur - 1)) @@ map,
          cur |-> cur + 1,
          id  |-> SetMsb(ToWord(cur - 1))]

\* registerOwner: an owner seen before keeps its identity, flag clear; a new
\* owner gets the next unused identity, returned with the flag set
registerSharedPointer(map, cur, addr) ==
    IF addr \in DOMAIN map
    THEN [map |-> map, cur |-> cur, id |-> map[addr]]
    ELSE [map |-> (addr :> ToWord(cur)) @@ map,
          cur |-> cur + 1,
          id  |-> SetMsb(ToWord(cur))]

\* resolveOwner: the owner registered under an identity, or Lookup Error
getSharedPointer(map, id) ==
    IF id \in DOMAIN map
    THEN [err |-> "ok", ptr |-> map[id]]
    ELSE [err |-> "LookupError", ptr |-> Unbound]

\* ------------------------------------------------ raw pointers, common.hpp
\* mutant: the flag test after the write is missing
SaveRawPointer_NoCheck(map, cur, rawPointer) ==
    LET r == registerSharedPointer(map, cur, rawPointer)
    IN  [map |-> r.map, cur |-> r.cur, written |-> <<r.id>>, err |-> "ok"]

\* save of T* const&: register, write the id, throw when the flag is set
SaveRawPointer(map, cur, rawPointer) ==
    LET r == registerSharedPointer(map, cur, rawPointer)
    IN  [map |-> r.map, cur |-> r.cur, written |-> <<r.id>>,
         err |-> IF HasMsb(r.id) THEN "PolicyError" ELSE "ok"]

\* mutant: the flag test before the lookup is missing
LoadRawPointer_NoFlagCheck(map, id, rawPointer) ==
    LET g == getSharedPointer(map, id)
    IN  IF g.err # "ok"
        THEN [err |-> g.err, rawPointer |-> rawPointer, consulted |-> TRUE]
        ELSE [err |-> "ok", rawPointer |-> g.ptr, consulted |-> TRUE]

\* mutant: the looked-up pointer is not stored into the reference
LoadRawPointer_NoBind(map, id, rawPointer) ==
    IF HasMsb(id)
    THEN [err |-> "FormatError", rawPointer |-> rawPointer, consulted |-> FALSE]
    ELSE LET g == getSharedPointer(map, id)
         IN  IF g.err # "ok"
             THEN [err |-> g.err, rawPointer |-> rawPointer, consulted |-> TRUE]
             ELSE [err |-> "ok", rawPointer |-> rawPointer, consulted |-> TRUE]

\* mutant: the flag is masked off and the low bits are looked up
LoadRawPointer_Masked(map, id, rawPointer) ==
    LET g == getSharedPointer(map, StripMsb(id))
    IN  IF g.err # "ok"
        THEN [err |-> "ok", rawPointer |-> Unbound, consulted |-> TRUE]
        ELSE [err |-> "ok", rawPointer |-> g.ptr, consulted |-> TRUE]

\* load of T*&: read the id, throw when the flag is set, else look it up
LoadRawPointer(map, id, rawPointer) ==
    IF HasMsb(id)
    THEN [err |-> "FormatError", rawPointer |-> rawPointer, consulted |-> FALSE]
    ELSE LET g == getSharedPointer(map, id)
         IN  IF g.err # "ok"
             THEN [err |-> g.err, rawPointer |-> rawPointer, consulted |-> TRUE]
             ELSE [err |-> "ok", rawPointer |-> g.ptr, consulted |-> TRUE]

\* --------------------------------------------- owning references (memory)
\* save of an owning reference: register, write the id, and on a first
\* occurrence write the owner's value after it
SaveSharedPointer(map, cur, owner) ==
    LET r == registerSharedPointer(map, cur, owner)
    IN  [map |-> r.map, cur |-> r.cur, written |-> <<r.id>>,
         data |-> IF HasMsb(r.id) THEN OwnerValue(owner) ELSE NoData,
         err |-> "ok"]

\* load of an owning reference: a defining entry constructs a new instance
\* and registers it under the identity; a later entry resolves the identity
LoadSharedPointer(map, insts, entry, ptr) ==
    IF HasMsb(entry.id)
    THEN LET n == Len(insts) + 1
         IN  [err |-> "ok", ptr |-> n,
              map |-> (StripMsb(entry.id) :> n) @@ map,
              insts |-> Append(insts, entry.data)]
    ELSE LET g == getSharedPointer(map, entry.id)
         IN  [err |-> g.err,
              ptr |-> IF g.err = "ok" THEN g.ptr ELSE ptr,
              map |-> map, insts |-> insts]

\* ------------------------------------------------------------ save session
NoSave == [op |-> "none", owner |-> 0, id |-> ToWord(0), err |-> "ok",
           owned |-> FALSE, known |-> FALSE]
NoLoad == [op |-> "none", id |-> ToWord(0), err |-> "ok", consulted |-> FALSE,
           prior |-> Unbound, ptr |-> Unbound]
NoCon == [op |-> "none", size |-> 0, prior |-> <<>>, elems |-> <<>>,
          err |-> "ok", factoryCalls |-> 0, defaultCtors |-> 0, reserved |-> 0]

InitPtr ==
    /\ registry = EmptyMap
    /\ nextIdentity = 1
    /\ stream = <<>>
    /\ saveRes = NoSave
    /\ saveFailed = FALSE
    /\ ownedSaved = {}
    /\ phase = "save"
    /\ input = <<>>
    /\ tampered = FALSE
    /\ pos = 1
    /\ resolved = EmptyMap
    /\ instances = <<>>
    /\ bound = <<>>
    /\ loadRes = NoLoad

SaveShared(o) ==
    /\ phase = "save"
    /\ Len(stream) < MaxStream
    /\ LET r == SaveSharedPointer(registry, nextIdentity, o)
       IN  /\ registry' = r.map
           /\ nextIdentity' = r.cur
           /\ stream' = Append(stream, [slot |-> "shared", id |-> r.written[1],
                                        data |-> r.data, of |-> o,
                                        threw |-> r.err # "ok"])
           /\ saveRes' = [op |-> "shared", owner |-> o, id |-> r.written[1],
                          err |-> r.err, owned |-> o \in ownedSaved,
                          known |-> o \in DOMAIN registry]
           /\ saveFailed' = saveFailed
    /\ ownedSaved' = ownedSaved \cup {o}
    /\ UNCHANGED <<phase, input, tampered, pos, resolved, instances, bound, loadRes>>
    /\ UNCHANGED conVars

SaveRaw(o) ==
    /\ phase = "save"
    /\ Len(stream) < MaxStream
    /\ LET r == SaveRawPointer(registry, nextIdentity, o)
       IN  /\ registry' = r.map
           /\ nextIdentity' = r.cur
           /\ stream' = Append(stream, [slot |-> "raw", id |-> r.written[1],
                                        data |-> NoData, of |-> o,
                                        threw |-> r.err # "ok"])
           /\ saveRes' = [op |-> "raw", owner |-> o, id |-> r.written[1],
                          err |-> r.err, owned |-> o \in ownedSaved,
                          known |-> o \in DOMAIN registry]
           /\ saveFailed' = (saveFailed \/ r.err # "ok")
    /\ UNCHANGED <<ownedSaved, phase, input, tampered, pos, resolved, instances,
                   bound, loadRes>>
    /\ UNCHANGED conVars

\* ------------------------------------------------------------ load session
\* the load session reads the stream the save session produced
BeginLoad ==
    /\ phase = "save"
    /\ phase' = "load"
    /\ input' = stream
    /\ tampered' = FALSE
    /\ UNCHANGED <<registry, nextIdentity, stream, saveRes, saveFailed, ownedSaved,
                   pos, resolved, instances, bound, loadRes>>
    /\ UNCHANGED conVars

\* the load session reads the stream with one raw-pointer field altered
BeginLoadTampered(i, f) ==
    /\ phase = "save"
    /\ i \in 1..Len(stream)
    /\ stream[i].slot = "raw"
    /\ f # stream[i].id
    /\ phase' = "load"
    /\ input' = [stream EXCEPT ![i].id = f]
    /\ tampered' = TRUE
    /\ UNCHANGED <<registry, nextIdentity, stream, saveRes, saveFailed, ownedSaved,
                   pos, resolved, instances, bound, loadRes>>
    /\ UNCHANGED conVars

LoadShared(prior) ==
    /\ phase = "load"
    /\ pos <= Len(input)
    /\ input[pos].slot = "shared"
    /\ LET r == LoadSharedPointer(resolved, instances, input[pos], prior)
       IN  /\ resolved' = r.map
           /\ instances' = r.insts
           /\ bound' = Append(bound, r.ptr)
           /\ loadRes' = [op |-> "shared", id |-> input[pos].id, err |-> r.err,
                          consulted |-> ~HasMsb(input[pos].id),
                          prior |-> prior, ptr |-> r.ptr]
    /\ pos' = pos + 1
    /\ UNCHANGED <<registry, nextIdentity, stream, saveRes, saveFailed, ownedSaved,
                   phase, input, tampered>>
    /\ UNCHANGED conVars

LoadRaw(prior) ==
    /\ phase = "load"
    /\ pos <= Len(input)
    /\ input[pos].slot = "raw"
    /\ LET r == LoadRawPointer(resolved, input[pos].id, prior)
       IN  /\ bound' = Append(bound, r.rawPointer)
           /\ loadRes' = [op |-> "raw", id |-> input[pos].id, err |-> r.err,
                          consulted |-> r.consulted,
                          prior |-> prior, ptr |-> r.rawPointer]
    /\ pos' = pos + 1
    /\ UNCHANGED <<registry, nextIdentity, stream, saveRes, saveFailed, ownedSaved,
                   phase, input, tampered, resolved, instances>>
    /\ UNCHANGED conVars

\* ---------------------------------------------- container, container.hpp
\* an element a user put into a container before any load
UserElem(v) == [v |-> v, by |-> "user", nth |-> 0]

\* the encoded form of an element: its value, without how it was constructed
EncodeElem(e) == e.v

\* load_and_construct<T>(ar): the factory constructs and decodes element k of
\* the stream in one step; fails when the stream holds no such element
load_and_construct(elems, k) ==
    IF k <= Len(elems)
    THEN [err |-> "ok", value |-> [v |-> elems[k], by |-> "factory", nth |-> k]]
    ELSE [err |-> "DecodeError", value |-> UserElem(0)]

\* default construction followed by a decode into the element
default_construct_and_load(elems, k) ==
    IF k <= Len(elems)
    THEN [err |-> "ok", value |-> [v |-> elems[k], by |-> "default", nth |-> k]]
    ELSE [err |-> "DecodeError", value |-> UserElem(0)]

\* for (n = 0; n < size; n++) container.push_back(load_and_construct<T>(ar))
RECURSIVE PushBackLoop(_, _, _)
PushBackLoop(ar, n, acc) ==
    IF ~(n < ar.size)
    THEN [container |-> acc, err |-> "ok", factoryCalls |-> n, defaultCtors |-> 0]
    ELSE LET e == load_and_construct(ar.elems, n + 1)
         IN  IF e.err # "ok"
             THEN [container |-> acc, err |-> e.err,
                   factoryCalls |-> n + 1, defaultCtors |-> 0]
             ELSE PushBackLoop(ar, n + 1, Append(acc, e.value))

\* the same loop on the default-constructible path
RECURSIVE PushBackLoopDefault(_, _, _)
PushBackLoopDefault(ar, n, acc) ==
    IF ~(n < ar.size)
    THEN [container |-> acc, err |-> "ok", factoryCalls |-> 0, defaultCtors |-> n]
    ELSE LET e == default_construct_and_load(ar.elems, n + 1)
         IN  IF e.err # "ok"
             THEN [container |-> acc, err |-> e.err,
                   factoryCalls |-> 0, defaultCtors |-> n + 1]
             ELSE PushBackLoopDefault(ar, n + 1, Append(acc, e.value))

\* the loop with the bound n <= size
RECURSIVE PushBackLoop_OffByOne(_, _, _)
PushBackLoop_OffByOne(ar, n, acc) ==
    IF ~(n <= ar.size)
    THEN [container |-> acc, err |-> "ok", factoryCalls |-> n, defaultCtors |-> 0]
    ELSE LET e == load_and_construct(ar.elems, n + 1)
         IN  IF e.err # "ok"
             THEN [container |-> acc, err |-> e.err,
                   factoryCalls |-> n + 1, defaultCtors |-> 0]
             ELSE PushBackLoop_OffByOne(ar, n + 1, Append(acc, e.value))

\* container.reserve(size), compiled in under C++17 for containers that have it
Reserve(hasReserve, size) == IF hasReserve THEN size ELSE 0

\* mutant: container.clear() is missing
ContainerLoad_NoClear(ar, c, hasReserve) ==
    LET r == PushBackLoop(ar, 0, c)
    IN  [container |-> r.container, err |-> r.err, factoryCalls |-> r.factoryCalls,
         defaultCtors |-> r.defaultCtors, reserved |-> Reserve(hasReserve, ar.size)]

\* mutant: the loop runs once too often
ContainerLoad_OffByOne(ar, c, hasReserve) ==
    LET r == PushBackLoop_OffByOne(ar, 0, <<>>)
    IN  [container |-> r.container, err |-> r.err, factoryCalls |-> r.factoryCalls,
         defaultCtors |-> r.defaultCtors, reserved |-> Reserve(hasReserve, ar.size)]

\* load of Container& when T has load_and_construct: read the size, clear,
\* reserve, push back size elements
ContainerLoad(ar, c, hasReserve) ==
    LET r == PushBackLoop(ar, 0, <<>>)
    IN  [container |-> r.container, err |-> r.err, factoryCalls |-> r.factoryCalls,
         defaultCtors |-> r.defaultCtors, reserved |-> Reserve(hasReserve, ar.size)]

\* the default-constructible path of the adapter
ContainerLoadDefault(ar, c, hasReserve) ==
    LET r == PushBackLoopDefault(ar, 0, <<>>)
    IN  [container |-> r.container, err |-> r.err, factoryCalls |-> r.factoryCalls,
         defaultCtors |-> r.defaultCtors, reserved |-> Reserve(hasReserve, ar.size)]

\* save of a container: the element count, then the elements in order
ContainerSave(c) ==
    [size |-> Len(c), elems |-> [i \in 1..Len(c) |-> EncodeElem(c[i])],
     saved |-> TRUE]

UserContainers == {[i \in 1..Len(q) |-> UserElem(q[i])] : q \in BoundedSeqs(Elems, MaxLen)}

InitCon ==
    /\ container = <<>>
    /\ snapshot = [size |-> 0, elems |-> <<>>, saved |-> FALSE]
    /\ dest = <<>>
    /\ cres = NoCon

\* a container and a destination with arbitrary contents
InitContainers ==
    /\ container \in UserContainers
    /\ snapshot = [size |-> 0, elems |-> <<>>, saved |-> FALSE]
    /\ dest \in UserContainers
    /\ cres = NoCon

SaveContainer ==
    /\ snapshot' = ContainerSave(container)
    /\ cres' = [NoCon EXCEPT !.op = "save"]
    /\ UNCHANGED <<container, dest>>
    /\ UNCHANGED ptrVars

\* a length field that does not agree with the elements that follow it
CorruptSize(n) ==
    /\ n # snapshot.size
    /\ snapshot' = [snapshot EXCEPT !.size = n, !.saved = FALSE]
    /\ cres' = [NoCon EXCEPT !.op = "corrupt"]
    /\ UNCHANGED <<container, dest>>
    /\ UNCHANGED ptrVars

LoadContainer(hasReserve) ==
    /\ LET r == ContainerLoad(snapshot, dest, hasReserve)
       IN  /\ dest' = r.container
           /\ cres' = [op |-> "hook", size |-> snapshot.size, prior |-> dest,
                       elems |-> snapshot.elems, err |-> r.err,
                       factoryCalls |-> r.factoryCalls,
                       defaultCtors |-> r.defaultCtors, reserved |-> r.reserved]
    /\ UNCHANGED <<container, snapshot>>
    /\ UNCHANGED ptrVars

LoadContainerDefault(hasReserve) ==
    /\ LET r == ContainerLoadDefault(snapshot, dest, hasReserve)
       IN  /\ dest' = r.container
           /\ cres' = [op |-> "default", size |-> snapshot.size, prior |-> dest,
                       elems |-> snapshot.elems, err |-> r.err,
                       factoryCalls |-> r.factoryCalls,
                       defaultCtors |-> r.defaultCtors, reserved |-> r.reserved]
    /\ UNCHANGED <<container, snapshot>>
    /\ UNCHANGED ptrVars

Init == InitPtr /\ InitCon

InitConSpec == InitPtr /\ InitContainers

NextCon ==
    \/ SaveContainer
    \/ \E n \in 0..(MaxLen + 1) : CorruptSize(n)
    \/ \E h \in BOOLEAN : LoadContainer(h)
    \/ \E h \in BOOLEAN : LoadContainerDefault(h)

SpecCon == InitConSpec /\ [][NextCon]_vars

NextPtr ==
    \/ \E o \in Owners : SaveShared(o)
    \/ \E o \in Owners : SaveRaw(o)
    \/ BeginLoad
    \/ \E i \in 1..MaxStream, f \in TamperFields : BeginLoadTampered(i, f)
    \/ \E p \in {Unbound, Stale} : LoadShared(p)
    \/ \E p \in {Unbound, Stale} : LoadRaw(p)

SpecPtr == Init /\ [][NextPtr]_vars

\* ================================================================== claims
\* the entries of a stream that were written for owner o
EntriesOf(s, n, o) == {i \in 1..n : s[i].of = o}
\* the first entry written for owner o is an owning reference
OwnedFirst(s, o) ==
    \E i \in 1..Len(s) :
        /\ s[i].of = o
        /\ s[i].slot = "shared"
        /\ \A j \in 1..(i - 1) : s[j].of # o

\* C1: round-trip aliasing. When the stream a save session produced is loaded
\* in the same order, every owner that was first saved through its owning
\* reference is reconstructed as exactly one instance, holding the owner's
\* value, and every reference to it read so far, owning or not, is bound to
\* that one instance, which no reference to another owner shares.
C1_RoundTripAliasing ==
    (phase = "load" /\ ~tampered) =>
        \A o \in Owners :
            OwnedFirst(input, o) =>
                LET idx == EntriesOf(input, Len(bound), o)
                IN  /\ Cardinality({i \in idx : input[i].id.msb}) = IF idx = {} THEN 0 ELSE 1
                    /\ \A i \in idx :
                          /\ bound[i] \in 1..Len(instances)
                          /\ instances[bound[i]] = OwnerValue(o)
                          /\ \A j \in 1..Len(bound) :
                                (bound[j] = bound[i]) <=> (j \in idx)

C1_Witness ==
    /\ phase = "load" /\ ~tampered /\ Len(input) = 3 /\ pos = 4
    /\ input[1].slot = "shared" /\ input[2].slot = "raw" /\ input[3].slot = "raw"
    /\ input[2].of = input[1].of /\ input[3].of = input[1].of
    /\ bound[2] = bound[1] /\ bound[3] = bound[1]
    /\ Len(instances) = 1

\* C2: every save of a non-owning reference whose owner has not been saved
\* through an owning reference earlier in the session fails with Policy Error,
\* a repeated attempt on the same owner included.
C2_UnownedSaveAlwaysFails ==
    (saveRes.op = "raw" /\ ~saveRes.owned) => saveRes.err = "PolicyError"

\* C3: a non-owning reference loaded from a field whose bit 31 is set fails
\* with Format Error whatever the field and the registry hold; the registry is
\* not consulted and the reference keeps the value it had.
C3_FlaggedFieldIsFormatError ==
    (loadRes.op = "raw" /\ loadRes.id.msb) =>
        /\ loadRes.err = "FormatError"
        /\ ~loadRes.consulted
        /\ loadRes.ptr = loadRes.prior
        /\ bound[Len(bound)] = loadRes.prior

C3_Witness ==
    /\ loadRes.op = "raw" /\ loadRes.id.msb
    /\ Word(FALSE, loadRes.id.low) \in DOMAIN resolved
    /\ loadRes.prior = Stale
    /\ loadRes.err = "FormatError"

\* the defining entries for the identity of field f among the first n entries
DefiningEntries(s, n, f) ==
    {j \in 1..n : s[j].slot = "shared" /\ s[j].id.msb /\ s[j].id.low = f.low}

\* C4: a non-owning reference loaded from a field with the flag clear succeeds,
\* bound to the instance the defining entry for that identity constructed, if
\* and only if such a defining entry was loaded earlier in the session;
\* otherwise it fails with Lookup Error and the reference is not bound.
C4_NoForwardReference ==
    (loadRes.op = "raw" /\ ~loadRes.id.msb) =>
        LET defs == DefiningEntries(input, pos - 2, loadRes.id)
        IN  IF defs # {}
            THEN /\ loadRes.err = "ok"
                 /\ \A j \in defs : loadRes.ptr = bound[j]
                 /\ bound[pos - 1] = loadRes.ptr
            ELSE /\ loadRes.err = "LookupError"
                 /\ loadRes.ptr = loadRes.prior
                 /\ bound[pos - 1] = loadRes.prior

C4_Witness ==
    /\ loadRes.op = "raw" /\ ~loadRes.id.msb /\ loadRes.id.low # 0
    /\ resolved # EmptyMap
    /\ loadRes.err = "LookupError"
    /\ loadRes.prior = Stale /\ loadRes.ptr = Stale

\* C5: a registration of an owner that is already registered returns the
\* identity of the first registration with the flag clear, and the owner's
\* defining payload has been emitted exactly once.
C5_PayloadExactlyOnce ==
    (saveRes.op # "none" /\ saveRes.known) =>
        /\ saveRes.id = registry[saveRes.owner]
        /\ ~saveRes.id.msb
        /\ Cardinality({i \in EntriesOf(stream, Len(stream), saveRes.owner) :
                            stream[i].data # NoData}) = 1

\* C6 as stated: every identity field the non-owning-reference save path
\* writes has bit 31 clear.
C6_RawFieldsAlwaysClear ==
    \A i \in 1..Len(stream) : stream[i].slot = "raw" => ~stream[i].id.msb

\* C6 amended: every identity field written by a non-owning-reference save
\* that returns without Policy Error has bit 31 clear; a field with bit 31 set
\* is written only by a save that then raises Policy Error.
C6_CompletedRawFieldsClear ==
    /\ (saveRes.op = "raw" /\ saveRes.err = "ok") => ~saveRes.id.msb
    /\ \A i \in 1..Len(stream) :
          stream[i].slot = "raw" => (stream[i].id.msb <=> stream[i].threw)

C6_Witness ==
    /\ saveRes.op = "raw" /\ saveRes.err = "ok" /\ ~saveRes.id.msb
    /\ \E i \in 1..Len(stream) :
          stream[i].slot = "raw" /\ stream[i].id.msb /\ stream[i].threw

\* the values of the elements of a container, in order
Values(c) == [i \in 1..Len(c) |-> c[i].v]

\* C7: a container load that completes leaves the destination holding exactly
\* the declared number N of elements, the N decoded elements in stream order,
\* whatever the destination held before; loading what a save wrote yields the
\* saved sequence.
C7_ContainerLoadResult ==
    (cres.op = "hook" /\ cres.err = "ok") =>
        /\ Len(dest) = cres.size
        /\ \A i \in 1..Len(dest) : dest[i].v = cres.elems[i] /\ dest[i].by # "user"
        /\ snapshot.saved => Values(dest) = Values(container)

C7_Witness ==
    /\ cres.op = "hook" /\ cres.err = "ok"
    /\ cres.size = 2 /\ Len(cres.prior) = 2
    /\ snapshot.saved
    /\ Values(cres.prior) # Values(container)
    /\ container[1].v # container[2].v
    /\ Values(dest) = Values(container)

\* C8: on the construction-hook path a container load of declared length N
\* that completes has invoked the factory exactly N times, call k producing
\* element k, and has default-constructed no element.
C8_FactoryOncePerElement ==
    (cres.op = "hook" /\ cres.err = "ok") =>
        /\ cres.factoryCalls = cres.size
        /\ cres.defaultCtors = 0
        /\ Len(dest) = cres.factoryCalls
        /\ \A i \in 1..Len(dest) : dest[i].by = "factory" /\ dest[i].nth = i

C8_Witness ==
    /\ cres.op = "hook" /\ cres.err = "ok"
    /\ cres.size = 2 /\ cres.factoryCalls = 2 /\ cres.defaultCtors = 0
    /\ cres.prior # <<>>
    /\ dest[1].by = "factory" /\ dest[2].by = "factory" /\ dest[2].nth = 2

\* the index of the first entry written for owner o
FirstEntry(s, o) == CHOOSE i \in EntriesOf(s, Len(s), o) :
                        \A j \in EntriesOf(s, Len(s), o) : i <= j

\* C9: no registered owner has identity 0, no two owners share an identity,
\* and identities are allocated in increasing order from 1.
C9_RegistryIdentities ==
    /\ \A o \in DOMAIN registry : ~registry[o].msb /\ registry[o].low # 0
    /\ \A o1, o2 \in DOMAIN registry : registry[o1] = registry[o2] => o1 = o2
    /\ {registry[o].low : o \in DOMAIN registry} = 1..(nextIdentity - 1)
    /\ \A o1, o2 \in DOMAIN registry :
          FirstEntry(stream, o1) < FirstEntry(stream, o2)
              => registry[o1].low < registry[o2].low

C9_Witness ==
    /\ Cardinality(DOMAIN registry) = 2
    /\ nextIdentity = 3
    /\ \E o \in DOMAIN registry : registry[o] = ToWord(2)

\* C10: in a save session in which no save has failed, every alias entry is
\* preceded in the stream by the defining entry, flag set, for the same
\* identity, and loading that stream in order raises no error on an alias
\* entry.
C10_WriteBeforeAlias ==
    ~saveFailed =>
        /\ \A i \in 1..Len(stream) :
              (stream[i].slot = "raw" /\ ~stream[i].id.msb) =>
                  \E j \in 1..(i - 1) :
                      /\ stream[j].slot = "shared"
                      /\ stream[j].id = Word(TRUE, stream[i].id.low)
                      /\ stream[j].data # NoData
        /\ (phase = "load" /\ ~tampered /\ loadRes.op = "raw") => loadRes.err = "ok"

C10_Witness ==
    /\ ~saveFailed /\ phase = "load" /\ ~tampered
    /\ pos > Len(input) /\ Len(input) = 3
    /\ loadRes.op = "raw" /\ loadRes.err = "ok"
    /\ \E i \in 1..2 : input[i].slot = "raw"
====
